---------------------------- MODULE Spec2Model ----------------------------
(***************************************************************************)
(* Onion Monitor (src/omon.go): the control-port setup sequence of         *)
(* TorMonitor.Start, the event loop with its two handlers, and the         *)
(* periodic reporter, sharing the registry and the counters under m.mu.    *)
(*                                                                         *)
(* Lines are strings exactly as they arrive on the control connection      *)
(* (CRLF included); the strings and strconv functions the code calls are   *)
(* operators that work character by character.                             *)
(*                                                                         *)
(* Not modelled: wall-clock values (StartTime, EndTime, the duration and   *)
(* the time prefix of an output line) and the console copy of each audit   *)
(* line, which fmt.Printf writes at the same program points as the logger. *)
(* int64 values are mathematical integers: the tokens drawn below have at  *)
(* most three digits and at most MaxLines lines are read, so every sum     *)
(* stays far inside the int64 range and strconv's range clamp (19 digits   *)
(* and more) is never reached.                                             *)
(***************************************************************************)
EXTENDS Integers, Sequences, FiniteSets, TLC

\* Number of lines the control connection delivers to the event loop.
MaxLines == 3

\* Number of times the 10-minute ticker fires.
MaxTicks == 1

----------------------------------------------------------------------------
(* package strings *)

\* unicode.IsSpace restricted to the ASCII white space a control line carries.
IsSpace(c) == c \in {" ", "\t", "\n", "\r"}

RECURSIVE TrimLeft(_)
TrimLeft(s) ==
    IF s = "" THEN s
    ELSE IF IsSpace(Head(s)) THEN TrimLeft(Tail(s)) ELSE s

RECURSIVE TrimRight(_)
TrimRight(s) ==
    IF s = "" THEN s
    ELSE IF IsSpace(SubSeq(s, Len(s), Len(s)))
         THEN TrimRight(SubSeq(s, 1, Len(s) - 1))
         ELSE s

\* strings.TrimSpace
TrimSpace(s) == TrimRight(TrimLeft(s))

\* strings.HasPrefix
HasPrefix(s, p) == Len(s) >= Len(p) /\ SubSeq(s, 1, Len(p)) = p

\* strings.Contains
Contains(s, p) ==
    \E i \in 1..(Len(s) - Len(p) + 1) : SubSeq(s, i, i + Len(p) - 1) = p

\* strings.TrimPrefix
TrimPrefix(s, p) == IF HasPrefix(s, p) THEN SubSeq(s, Len(p) + 1, Len(s)) ELSE s

RECURSIVE FieldsFrom(_, _, _)
FieldsFrom(s, cur, acc) ==
    IF s = "" THEN (IF cur = "" THEN acc ELSE Append(acc, cur))
    ELSE IF IsSpace(Head(s))
         THEN FieldsFrom(Tail(s), "", IF cur = "" THEN acc ELSE Append(acc, cur))
         ELSE FieldsFrom(Tail(s), cur \o Head(s), acc)

\* Variant: an empty field after the last one, as a split on " " of a line
\* ending in a space gives.
Fields_TrailingEmpty(s) == Append(FieldsFrom(s, "", <<>>), "")

\* strings.Fields: the maximal runs of non-space characters, in order.
\* The handlers bind its result once, as the code does with parts :=, by
\* \E parts \in {Fields(line)}.
Fields(s) == FieldsFrom(s, "", <<>>)

----------------------------------------------------------------------------
(* package strconv *)

Digits == <<"0", "1", "2", "3", "4", "5", "6", "7", "8", "9">>

IsDigit(c) == \E d \in 1..10 : Digits[d] = c

DigitVal(c) == (CHOOSE d \in 1..10 : Digits[d] = c) - 1

\* The digit loop of ParseUint, base 10: n = n*10 + d, left to right;
\* -1 stands for the ErrSyntax return.
RECURSIVE ParseUintFrom(_, _)
ParseUintFrom(s, n) ==
    IF s = "" THEN n
    ELSE IF IsDigit(Head(s))
         THEN ParseUintFrom(Tail(s), n * 10 + DigitVal(Head(s)))
         ELSE -1

\* Variant: the value of the leading digits, as C's atoi gives.
ParseInt_Atoi(s) ==
    LET RECURSIVE Lead(_, _)
        Lead(t, n) == IF t # "" /\ IsDigit(Head(t))
                      THEN Lead(Tail(t), n * 10 + DigitVal(Head(t)))
                      ELSE n
    IN  IF s # "" /\ Head(s) = "-" THEN 0 - Lead(Tail(s), 0)
        ELSE IF s # "" /\ Head(s) = "+" THEN Lead(Tail(s), 0)
        ELSE Lead(s, 0)

\* The value strconv.ParseInt(s, 10, 64) returns, its error dropped as the
\* caller drops it: an optional sign, then one or more decimal digits; the
\* empty string, a bare sign and any other character give 0.
ParseInt(s) ==
    IF s = "" THEN 0
    ELSE LET neg  == Head(s) = "-"
             rest == IF Head(s) \in {"+", "-"} THEN Tail(s) ELSE s
             un   == IF rest = "" THEN -1 ELSE ParseUintFrom(rest, 0)
         IN  IF un = -1 THEN 0 ELSE IF neg THEN 0 - un ELSE un

----------------------------------------------------------------------------
(* What the control connection can deliver *)

\* Reply lines to a setup command.
Replies ==
    { "250 OK\r\n",
      "515 Authentication failed\r\n",
      "552 Unrecognized event\r\n" }

\* Asynchronous lines: status notifications, bandwidth notifications, others.
Lines ==
    { "650 STREAM 7 NEW 0 a.com:443 PURPOSE=USER\r\n",
      "650 STREAM 7 CLOSED REASON=DONE\r\n",
      "650 STREAM 9 SENTCONNECT - PURPOSE=DIR\r\n",
      "650 STREAM 9 FAILED 4 b.org:80 REASON=TIMEOUT\r\n",
      "650 STREAM 9 DETACHED 4 b.org:80\r\n",
      "650 STREAM 7\r\n",
      "650 STREAM 7 NEW 0 STREAM_BW.com:80\r\n",
      "650 STREAM_BW 7 100 250\r\n",
      "650 STREAM_BW 7 -5 2k\r\n",
      "650 STREAM_BW 9 abc 250\r\n",
      "650 STREAM_BW 99 1 1\r\n",
      "650 STREAM_BW 7 5\r\n",
      "250 OK\r\n" }

----------------------------------------------------------------------------
(* State *)

VARIABLES
    startPc,        \* position of Start (main goroutine)
    authResp,       \* Start: response, err of the read after AUTHENTICATE
    setResp,        \* what the read after SETEVENTS returned (discarded by Start)
    loopPc,         \* position of the eventLoop goroutine
    line,           \* eventLoop: the line read, trimmed once dispatched
    repPc,          \* position of the periodicStats goroutine
    tickerC,        \* ticker.C, a channel of capacity 1: ticks waiting in it
    mu,             \* m.mu: "free", or the goroutine holding it
    streams,        \* m.streams
    stats,          \* m.stats
    report,         \* m.report
    activeStreams,  \* m.activeStreams
    totalStreams,   \* m.totalStreams
    log,            \* the lines m.logger has written, oldest first
    lastStatus,     \* history: id -> status of the last status event handled
    bwSum,          \* history: id -> sent and received values of the bandwidth
                    \*   events applied to the id's record since it was created
    nread,          \* history: lines delivered so far
    nticks          \* history: ticker firings so far

vars == << startPc, authResp, setResp, loopPc, line, repPc, tickerC, mu,
           streams, stats, report, activeStreams, totalStreams, log,
           lastStatus, bwSum, nread, nticks >>

\* The monitor's data: everything m.mu protects, and the audit log.
data == << streams, stats, report, activeStreams, totalStreams, log >>

setupVars == << startPc, authResp, setResp >>
loopVars  == << loopPc, line, nread >>
repVars   == << repPc, tickerC, nticks >>

CounterKeys == {"total_sent", "total_received", "streams_total"}

\* A map[string]int64 read at the three keys the code uses: a key that was
\* never written reads 0.
ZeroCounters == [k \in CounterKeys |-> 0]

EmptyMap == [k \in {} |-> k]

Put(f, k, v) == [x \in DOMAIN f \cup {k} |-> IF x = k THEN v ELSE f[x]]

Delete(f, k) == [x \in DOMAIN f \ {k} |-> f[x]]

NoResp == [s |-> "", err |-> FALSE]

\* NewTorMonitor; main has not called Start yet.
Init ==
    /\ startPc = "connect"
    /\ authResp = NoResp
    /\ setResp = NoResp
    /\ loopPc = "notstarted"
    /\ line = ""
    /\ repPc = "notstarted"
    /\ tickerC = 0
    /\ mu = "free"
    /\ streams = EmptyMap
    /\ stats = ZeroCounters
    /\ report = ZeroCounters
    /\ activeStreams = 0
    /\ totalStreams = 0
    /\ log = <<>>
    /\ lastStatus = EmptyMap
    /\ bwSum = EmptyMap
    /\ nread = 0
    /\ nticks = 0

----------------------------------------------------------------------------
(* TorMonitor.Start *)

\* The check Start makes on the AUTHENTICATE reply.
ReplyOK(response) == Contains(response, "250 OK")

\* connectToTor, findCookieFile, os.ReadFile: external; each succeeds or
\* makes Start return its error.
Start_Connect ==
    /\ startPc = "connect"
    /\ \E ok \in BOOLEAN : startPc' = IF ok THEN "cookie" ELSE "failed"
    /\ UNCHANGED << authResp, setResp, loopVars, repVars, mu, data, lastStatus, bwSum >>

Start_Cookie ==
    /\ startPc = "cookie"
    /\ \E ok \in BOOLEAN : startPc' = IF ok THEN "authenticate" ELSE "failed"
    /\ UNCHANGED << authResp, setResp, loopVars, repVars, mu, data, lastStatus, bwSum >>

\* AUTHENTICATE is written, one reply line is read and checked.
Start_Authenticate ==
    /\ startPc = "authenticate"
    /\ \E r \in [s : Replies, err : {FALSE}] \cup {[s |-> "", err |-> TRUE]} :
          /\ authResp' = r
          /\ startPc' = IF r.err THEN "failed"
                        ELSE IF ~ReplyOK(r.s) THEN "failed"
                        ELSE "setevents"
    /\ UNCHANGED << setResp, loopVars, repVars, mu, data, lastStatus, bwSum >>

\* SETEVENTS is written and one line is read; Start keeps neither the line
\* nor the error.
Start_SetEvents ==
    /\ startPc = "setevents"
    /\ \E r \in [s : Replies, err : {FALSE}] \cup {[s |-> "", err |-> TRUE]} :
          setResp' = r
    /\ startPc' = "go_eventLoop"
    /\ UNCHANGED << authResp, loopVars, repVars, mu, data, lastStatus, bwSum >>

\* go m.eventLoop()
Start_GoEventLoop ==
    /\ startPc = "go_eventLoop"
    /\ startPc' = "go_periodicStats"
    /\ loopPc' = "read"
    /\ UNCHANGED << authResp, setResp, line, nread, repVars, mu, data, lastStatus, bwSum >>

\* go m.periodicStats(); return nil: Start's locals are gone.
Start_GoPeriodicStats ==
    /\ startPc = "go_periodicStats"
    /\ startPc' = "returned"
    /\ repPc' = "wait"
    /\ authResp' = NoResp
    /\ setResp' = NoResp
    /\ UNCHANGED << loopVars, tickerC, nticks, mu, data, lastStatus, bwSum >>

----------------------------------------------------------------------------
(* TorMonitor.eventLoop *)

\* The if / else-if of the loop body, on the trimmed line.
Dispatch(l) ==
    IF HasPrefix(l, "650 STREAM ") /\ ~Contains(l, "STREAM_BW") THEN "status"
    ELSE IF HasPrefix(l, "650 STREAM_BW") THEN "bandwidth"
    ELSE "ignored"

\* Variant: a loop that has returned is started again and reads on.
eventLoop_ReadLine_Restart ==
    /\ loopPc \in {"read", "returned"}
    /\ nread < MaxLines
    /\ \E raw \in Lines : line' = raw
    /\ loopPc' = "dispatch"
    /\ nread' = nread + 1
    /\ UNCHANGED << setupVars, repVars, mu, data, lastStatus, bwSum >>

\* ReadString returns a line.
eventLoop_ReadLine ==
    /\ loopPc = "read"
    /\ nread < MaxLines
    /\ \E raw \in Lines : line' = raw
    /\ loopPc' = "dispatch"
    /\ nread' = nread + 1
    /\ UNCHANGED << setupVars, repVars, mu, data, lastStatus, bwSum >>

\* The line is trimmed and a handler is chosen for it, or none.
eventLoop_Dispatch ==
    /\ loopPc = "dispatch"
    /\ \E l \in {TrimSpace(line)} :
       \E d \in {Dispatch(l)} :
           /\ loopPc' = IF d = "status" THEN "handleStreamEvent"
                        ELSE IF d = "bandwidth" THEN "handleStreamBWEvent"
                        ELSE "read"
           /\ line' = IF d = "ignored" THEN "" ELSE l
    /\ UNCHANGED << setupVars, nread, repVars, mu, data, lastStatus, bwSum >>

\* ReadString returns an error: the loop reports it and returns.
eventLoop_ReadError ==
    /\ loopPc = "read"
    /\ loopPc' = "returned"
    /\ UNCHANGED << setupVars, line, nread, repVars, mu, data, lastStatus, bwSum >>

----------------------------------------------------------------------------
(* TorMonitor.handleStreamEvent *)

TooShortStatus(parts) == Len(parts) < 4

\* Variant: FAILED not treated as terminal.
IsTerminal_ClosedOnly(status) == status = "CLOSED"

\* if status == "CLOSED" || status == "FAILED"
IsTerminal(status) == status = "CLOSED" \/ status = "FAILED"

\* The target loop: every token from the fifth on that has no "=" and is
\* not "-" is assigned in turn, so the last one stays.
RECURSIVE TargetFrom(_, _, _)
\* Variant: the first candidate token is kept instead of the last.
RECURSIVE TargetFrom_First(_, _, _)
TargetFrom_First(parts, i, target) ==
    IF i > Len(parts) THEN target
    ELSE IF ~Contains(parts[i], "=") /\ parts[i] # "-"
         THEN parts[i]
         ELSE TargetFrom_First(parts, i + 1, target)

TargetFrom(parts, i, target) ==
    IF i > Len(parts) THEN target
    ELSE TargetFrom(parts, i + 1,
                    IF ~Contains(parts[i], "=") /\ parts[i] # "-"
                    THEN parts[i] ELSE target)

\* The reason loop: the last REASON= token of the line, else NONE.
RECURSIVE ReasonFrom(_, _, _)
ReasonFrom(parts, i, reason) ==
    IF i > Len(parts) THEN reason
    ELSE ReasonFrom(parts, i + 1,
                    IF HasPrefix(parts[i], "REASON=")
                    THEN TrimPrefix(parts[i], "REASON=") ELSE reason)

NewStreamInfo(id) ==
    [ID |-> id, Target |-> "", BytesSent |-> 0, BytesReceived |-> 0,
     Closed |-> FALSE]

\* m.mu.Lock()
handleStreamEvent_Lock ==
    /\ loopPc = "handleStreamEvent"
    /\ mu = "free"
    /\ mu' = "eventLoop"
    /\ loopPc' = "handleStreamEvent_body"
    /\ UNCHANGED << setupVars, line, nread, repVars, data, lastStatus, bwSum >>

\* Variant: activeStreams is incremented on every status event, not only
\* when the record is created.
handleStreamEvent_Body_CountEvery ==
    /\ loopPc = "handleStreamEvent_body"
    /\ \E parts \in {Fields(line)} :
       IF TooShortStatus(parts)
       THEN /\ mu' = "free"
            /\ loopPc' = "read"
            /\ line' = ""
            /\ UNCHANGED << data, lastStatus, bwSum >>
       ELSE LET id      == parts[3]
                status  == parts[4]
                exists  == id \in DOMAIN streams
                s0      == IF exists THEN streams[id] ELSE NewStreamInfo(id)
                s       == [s0 EXCEPT !.Target = TargetFrom(parts, 5, s0.Target)]
                final   == IsTerminal(status) /\ ~s.Closed
            IN  /\ streams' = Put(streams, id, s)
                /\ stats' = IF exists THEN stats
                            ELSE [stats EXCEPT !["streams_total"] = @ + 1]
                /\ report' = IF exists THEN report
                             ELSE [report EXCEPT !["streams_total"] = @ + 1]
                /\ activeStreams' = activeStreams + 1
                /\ totalStreams' = IF exists THEN totalStreams
                                   ELSE totalStreams + 1
                /\ log' = Append(log, [kind |-> "status", id |-> id,
                                       status |-> status, target |-> s.Target])
                /\ lastStatus' = Put(lastStatus, id, status)
                /\ bwSum' = IF exists THEN bwSum
                             ELSE Put(bwSum, id, [sent |-> 0, rcvd |-> 0])
                /\ mu' = IF final THEN mu ELSE "free"
                /\ loopPc' = IF final THEN "handleStreamEvent_finalize" ELSE "read"
                /\ line' = IF final THEN line ELSE ""
    /\ UNCHANGED << setupVars, nread, repVars >>

\* From strings.Fields to the status line written to the log; returns (and
\* unlocks) unless the stream is to be finalized.
handleStreamEvent_Body ==
    /\ loopPc = "handleStreamEvent_body"
    /\ \E parts \in {Fields(line)} :
       IF TooShortStatus(parts)
       THEN /\ mu' = "free"
            /\ loopPc' = "read"
            /\ line' = ""
            /\ UNCHANGED << data, lastStatus, bwSum >>
       ELSE LET id      == parts[3]
                status  == parts[4]
                exists  == id \in DOMAIN streams
                s0      == IF exists THEN streams[id] ELSE NewStreamInfo(id)
                s       == [s0 EXCEPT !.Target = TargetFrom(parts, 5, s0.Target)]
                final   == IsTerminal(status) /\ ~s.Closed
            IN  /\ streams' = Put(streams, id, s)
                /\ stats' = IF exists THEN stats
                            ELSE [stats EXCEPT !["streams_total"] = @ + 1]
                /\ report' = IF exists THEN report
                             ELSE [report EXCEPT !["streams_total"] = @ + 1]
                /\ activeStreams' = IF exists THEN activeStreams
                                    ELSE activeStreams + 1
                /\ totalStreams' = IF exists THEN totalStreams
                                   ELSE totalStreams + 1
                /\ log' = Append(log, [kind |-> "status", id |-> id,
                                       status |-> status, target |-> s.Target])
                /\ lastStatus' = Put(lastStatus, id, status)
                /\ bwSum' = IF exists THEN bwSum
                             ELSE Put(bwSum, id, [sent |-> 0, rcvd |-> 0])
                /\ mu' = IF final THEN mu ELSE "free"
                /\ loopPc' = IF final THEN "handleStreamEvent_finalize" ELSE "read"
                /\ line' = IF final THEN line ELSE ""
    /\ UNCHANGED << setupVars, nread, repVars >>

DisplayReason(reason) == IF reason = "DONE" THEN "END" ELSE reason

\* Variant: the summary prints the two byte counters in the other order.
finalizeStream_Swapped(s, reason, active) ==
    << [kind |-> "summary", id |-> s.ID, S |-> s.BytesReceived,
        R |-> s.BytesSent, target |-> s.Target,
        reason |-> DisplayReason(reason)],
       [kind |-> "totals", S |-> stats["total_sent"],
        R |-> stats["total_received"], all |-> totalStreams,
        active |-> active] >>

\* The two lines finalizeStream writes for s, with the counters as they are
\* when it is called.
finalizeStream(s, reason, active) ==
    << [kind |-> "summary", id |-> s.ID, S |-> s.BytesSent,
        R |-> s.BytesReceived, target |-> s.Target,
        reason |-> DisplayReason(reason)],
       [kind |-> "totals", S |-> stats["total_sent"],
        R |-> stats["total_received"], all |-> totalStreams,
        active |-> active] >>

\* s.Closed = true; m.activeStreams--; the reason; m.finalizeStream(s, reason)
handleStreamEvent_Finalize ==
    /\ loopPc = "handleStreamEvent_finalize"
    /\ \E parts \in {Fields(line)} :
       LET id == parts[3]
           s  == [streams[id] EXCEPT !.Closed = TRUE]
       IN  /\ streams' = [streams EXCEPT ![id] = s]
           /\ activeStreams' = activeStreams - 1
           /\ log' = log \o finalizeStream(s, ReasonFrom(parts, 1, "NONE"),
                                           activeStreams - 1)
    /\ loopPc' = "handleStreamEvent_delete"
    /\ UNCHANGED << setupVars, line, nread, repVars, mu, stats, report,
                    totalStreams, lastStatus, bwSum >>

\* Variant: the finalized record is left in the registry.
handleStreamEvent_Delete_Keep ==
    /\ loopPc = "handleStreamEvent_delete"
    /\ mu' = "free"
    /\ loopPc' = "read"
    /\ line' = ""
    /\ UNCHANGED << setupVars, nread, repVars, streams, stats, report,
                    activeStreams, totalStreams, log, lastStatus, bwSum >>

\* delete(m.streams, id); the deferred m.mu.Unlock()
handleStreamEvent_Delete ==
    /\ loopPc = "handleStreamEvent_delete"
    /\ \E parts \in {Fields(line)} : streams' = Delete(streams, parts[3])
    /\ mu' = "free"
    /\ loopPc' = "read"
    /\ line' = ""
    /\ UNCHANGED << setupVars, nread, repVars, stats, report, activeStreams,
                    totalStreams, log, lastStatus, bwSum >>

----------------------------------------------------------------------------
(* TorMonitor.handleStreamBWEvent *)

TooShortBW(parts) == Len(parts) < 5

\* Variant: the handler enters without waiting for the mutex to be free.
handleStreamBWEvent_Lock_NoWait ==
    /\ loopPc = "handleStreamBWEvent"
    /\ mu' = "eventLoop"
    /\ loopPc' = "handleStreamBWEvent_body"
    /\ UNCHANGED << setupVars, line, nread, repVars, data, lastStatus, bwSum >>

\* m.mu.Lock()
handleStreamBWEvent_Lock ==
    /\ loopPc = "handleStreamBWEvent"
    /\ mu = "free"
    /\ mu' = "eventLoop"
    /\ loopPc' = "handleStreamBWEvent_body"
    /\ UNCHANGED << setupVars, line, nread, repVars, data, lastStatus, bwSum >>

\* Variant: the totals are updated outside the exists test.
BWUpdate_CountAll(id, sent, rcvd) ==
    /\ streams' = IF id \in DOMAIN streams
                  THEN [streams EXCEPT ![id].BytesSent = @ + sent,
                                       ![id].BytesReceived = @ + rcvd]
                  ELSE streams
    /\ stats' = [stats EXCEPT !["total_sent"] = @ + sent,
                              !["total_received"] = @ + rcvd]
    /\ report' = [report EXCEPT !["total_sent"] = @ + sent,
                                !["total_received"] = @ + rcvd]

\* if s, exists := m.streams[id]; exists { ... }
BWUpdate(id, sent, rcvd) ==
    IF id \in DOMAIN streams
    THEN /\ streams' = [streams EXCEPT ![id].BytesSent = @ + sent,
                                       ![id].BytesReceived = @ + rcvd]
         /\ stats' = [stats EXCEPT !["total_sent"] = @ + sent,
                                   !["total_received"] = @ + rcvd]
         /\ report' = [report EXCEPT !["total_sent"] = @ + sent,
                                     !["total_received"] = @ + rcvd]
    ELSE UNCHANGED << streams, stats, report >>

\* Variant: the return on a short line leaves the mutex locked.
handleStreamBWEvent_Body_LeakLock ==
    /\ loopPc = "handleStreamBWEvent_body"
    /\ \E parts \in {Fields(line)} :
       IF TooShortBW(parts)
       THEN UNCHANGED << streams, stats, report, bwSum, mu >>
       ELSE LET id   == parts[3]
                sent == ParseInt(parts[4])
                rcvd == ParseInt(parts[5])
            IN  /\ BWUpdate(id, sent, rcvd)
                /\ bwSum' = IF id \in DOMAIN streams
                            THEN [bwSum EXCEPT ![id].sent = @ + sent,
                                               ![id].rcvd = @ + rcvd]
                            ELSE bwSum
                /\ mu' = "free"
    /\ loopPc' = "read"
    /\ line' = ""
    /\ UNCHANGED << setupVars, nread, repVars, activeStreams, totalStreams,
                    log, lastStatus >>

\* The whole body, and the deferred m.mu.Unlock().
handleStreamBWEvent_Body ==
    /\ loopPc = "handleStreamBWEvent_body"
    /\ \E parts \in {Fields(line)} :
       IF TooShortBW(parts)
       THEN UNCHANGED << streams, stats, report, bwSum >>
       ELSE LET id   == parts[3]
                sent == ParseInt(parts[4])
                rcvd == ParseInt(parts[5])
            IN  /\ BWUpdate(id, sent, rcvd)
                /\ bwSum' = IF id \in DOMAIN streams
                            THEN [bwSum EXCEPT ![id].sent = @ + sent,
                                               ![id].rcvd = @ + rcvd]
                            ELSE bwSum
    /\ mu' = "free"
    /\ loopPc' = "read"
    /\ line' = ""
    /\ UNCHANGED << setupVars, nread, repVars, activeStreams, totalStreams,
                    log, lastStatus >>

----------------------------------------------------------------------------
(* TorMonitor.periodicStats *)

\* The runtime's timer sends on ticker.C; a tick that finds the channel
\* full is dropped.
ticker_Fire ==
    /\ repPc # "notstarted"
    /\ nticks < MaxTicks
    /\ nticks' = nticks + 1
    /\ tickerC' = 1
    /\ UNCHANGED << setupVars, loopVars, repPc, mu, data, lastStatus, bwSum >>

\* case <-ticker.C
periodicStats_Receive ==
    /\ repPc = "wait"
    /\ tickerC = 1
    /\ tickerC' = 0
    /\ repPc' = "lock"
    /\ UNCHANGED << setupVars, loopVars, nticks, mu, data, lastStatus, bwSum >>

\* Variant: the reporter goes on without taking the lock.
periodicStats_Lock_None ==
    /\ repPc = "lock"
    /\ repPc' = "report"
    /\ UNCHANGED << setupVars, loopVars, tickerC, nticks, mu, data, lastStatus, bwSum >>

\* m.mu.Lock()
periodicStats_Lock ==
    /\ repPc = "lock"
    /\ mu = "free"
    /\ mu' = "periodicStats"
    /\ repPc' = "report"
    /\ UNCHANGED << setupVars, loopVars, tickerC, nticks, data, lastStatus, bwSum >>

\* The report line is formatted from m.report and m.activeStreams and
\* written.
periodicStats_Report ==
    /\ repPc = "report"
    /\ log' = Append(log, [kind |-> "report",
                           sent |-> report["total_sent"],
                           received |-> report["total_received"],
                           streams |-> report["streams_total"],
                           active |-> activeStreams])
    /\ repPc' = "reset"
    /\ UNCHANGED << setupVars, loopVars, tickerC, nticks, mu, streams, stats,
                    report, activeStreams, totalStreams, lastStatus, bwSum >>

\* Variant: streams_total is not zeroed.
ResetReport_KeepStreams(r) ==
    [r EXCEPT !["total_sent"] = 0, !["total_received"] = 0]

\* The three assignments after the report is written.
ResetReport(r) ==
    [r EXCEPT !["total_sent"] = 0, !["total_received"] = 0,
              !["streams_total"] = 0]

\* m.report is zeroed; m.mu.Unlock()
periodicStats_Reset ==
    /\ repPc = "reset"
    /\ report' = ResetReport(report)
    /\ mu' = "free"
    /\ repPc' = "wait"
    /\ UNCHANGED << setupVars, loopVars, tickerC, nticks, streams, stats,
                    activeStreams, totalStreams, log, lastStatus, bwSum >>

----------------------------------------------------------------------------

Next ==
    \/ Start_Connect
    \/ Start_Cookie
    \/ Start_Authenticate
    \/ Start_SetEvents
    \/ Start_GoEventLoop
    \/ Start_GoPeriodicStats
    \/ eventLoop_ReadLine
    \/ eventLoop_Dispatch
    \/ eventLoop_ReadError
    \/ handleStreamEvent_Lock
    \/ handleStreamEvent_Body
    \/ handleStreamEvent_Finalize
    \/ handleStreamEvent_Delete
    \/ handleStreamBWEvent_Lock
    \/ handleStreamBWEvent_Body
    \/ ticker_Fire
    \/ periodicStats_Receive
    \/ periodicStats_Lock
    \/ periodicStats_Report
    \/ periodicStats_Reset

Spec == Init /\ [][Next]_vars

\* The steps of the eventLoop goroutine that do not block: everything
\* between a line read and the next read, taking the mutex excepted.
eventLoop_Run ==
    \/ eventLoop_Dispatch
    \/ handleStreamEvent_Body
    \/ handleStreamEvent_Finalize
    \/ handleStreamEvent_Delete
    \/ handleStreamBWEvent_Body

\* The steps of the periodicStats goroutine that do not block on the mutex.
periodicStats_Run ==
    \/ periodicStats_Receive
    \/ periodicStats_Report
    \/ periodicStats_Reset

\* Fair scheduling: a goroutine that can run eventually does, and a
\* goroutine waiting in m.mu.Lock() gets the mutex if it is released again
\* and again (sync.Mutex hands the lock over to a waiter that has waited
\* long). Nothing is assumed of the connection or of the timer.
FairSpec ==
    /\ Spec
    /\ WF_vars(eventLoop_Run)
    /\ WF_vars(periodicStats_Run)
    /\ SF_vars(handleStreamEvent_Lock)
    /\ SF_vars(handleStreamBWEvent_Lock)
    /\ SF_vars(periodicStats_Lock)

----------------------------------------------------------------------------
(* Properties *)

Last(q) == q[Len(q)]

\* The registry and every counter a handler can change.
counters == << streams, stats, report, activeStreams, totalStreams >>

\* C1: whenever the lock is free (no handler and no tick is inside its
\* critical section), activeStreams equals the number of entries of the
\* registry, and so is never negative.
C1_ActiveEqualsRegistry ==
    mu = "free" =>
        /\ activeStreams = Cardinality(DOMAIN streams)
        /\ activeStreams >= 0

\* One stream has been opened and finalized, another is still open.
C1_Witness ==
    /\ mu = "free"
    /\ totalStreams = 2
    /\ activeStreams = 1
    /\ \E i \in 1..Len(log) : log[i].kind = "summary"

\* C2: a CLOSED status event for an id whose previous status event was also
\* CLOSED is a no-op: it changes no counter and no registry entry and does
\* not go on to finalize anything.
C2_SecondClosedIsNoOp ==
    [][ ( /\ loopPc = "handleStreamEvent_body"
          /\ loopPc' # loopPc
          /\ Len(Fields(line)) >= 4
          /\ Fields(line)[4] = "CLOSED"
          /\ Fields(line)[3] \in DOMAIN lastStatus
          /\ lastStatus[Fields(line)[3]] = "CLOSED" )
        => ( /\ UNCHANGED counters
             /\ loopPc' # "handleStreamEvent_finalize" ) ]_vars

\* C3: while a record stays in the registry, neither BytesSent nor
\* BytesReceived decreases in any step.
C3_BytesNeverDecrease ==
    [][ \A id \in DOMAIN streams \cap DOMAIN streams' :
            /\ streams'[id].BytesSent >= streams[id].BytesSent
            /\ streams'[id].BytesReceived >= streams[id].BytesReceived ]_vars

\* C4: whenever the lock is free, an id is in the registry exactly if a
\* status event for it has been handled and the last one handled carried a
\* status other than CLOSED and FAILED.
C4_RegistryIffLastStatusOpen ==
    mu = "free" =>
        \A id \in DOMAIN streams \cup DOMAIN lastStatus :
            id \in DOMAIN streams
                <=> ( /\ id \in DOMAIN lastStatus
                      /\ lastStatus[id] \notin {"CLOSED", "FAILED"} )

\* Stream 9 was last seen FAILED and is gone, stream 7 was last seen with a
\* non-terminal status and is present.
C4_Witness ==
    /\ mu = "free"
    /\ DOMAIN lastStatus = {"7", "9"}
    /\ lastStatus["9"] = "FAILED"
    /\ lastStatus["7"] = "NEW"
    /\ DOMAIN streams = {"7"}

\* C5: a bandwidth event with five or more tokens whose id is not in the
\* registry changes nothing: no record, no counter, no log line; the lock is
\* released and the loop reads the next line.
C5_UnknownIdIgnored ==
    [][ ( /\ loopPc = "handleStreamBWEvent_body"
          /\ loopPc' # loopPc
          /\ Len(Fields(line)) >= 5
          /\ Fields(line)[3] \notin DOMAIN streams )
        => ( /\ UNCHANGED << counters, log >>
             /\ loopPc' = "read"
             /\ mu' = "free" ) ]_vars

\* The handler holds the lock on a well-formed sample for id 99, which was
\* never opened, while another stream has traffic counted.
C5_Witness ==
    /\ loopPc = "handleStreamBWEvent_body"
    /\ mu = "eventLoop"
    /\ Len(Fields(line)) >= 5
    /\ Fields(line)[3] = "99"
    /\ "99" \notin DOMAIN streams
    /\ stats["total_received"] > 0

DecimalDigits == {"0", "1", "2", "3", "4", "5", "6", "7", "8", "9"}

AllDigits(s) ==
    /\ s # ""
    /\ \A i \in 1..Len(s) : SubSeq(s, i, i) \in DecimalDigits

\* A well-formed integer: an optional sign, then decimal digits.
WellFormedInt(s) ==
    \/ AllDigits(s)
    \/ /\ s # ""
       /\ Head(s) \in {"+", "-"}
       /\ AllDigits(Tail(s))

\* The value of a digit string, from its last digit backwards.
RECURSIVE DigitsValue(_)
DigitsValue(s) ==
    IF s = "" THEN 0
    ELSE DigitsValue(SubSeq(s, 1, Len(s) - 1)) * 10
            + DigitVal(SubSeq(s, Len(s), Len(s)))

\* What a token adds: its value if it is a well-formed integer, else 0.
Contribution(s) ==
    IF ~WellFormedInt(s) THEN 0
    ELSE IF Head(s) = "-" THEN 0 - DigitsValue(Tail(s))
    ELSE IF Head(s) = "+" THEN DigitsValue(Tail(s))
    ELSE DigitsValue(s)

\* C6: a bandwidth line with five or more tokens for an id in the registry
\* is never rejected: each of the two tokens adds its value to the record's
\* counter and to the lifetime and the windowed total, a token that is not
\* a well-formed integer adding exactly 0.
C6_MalformedTokenAddsZero ==
    [][ ( /\ loopPc = "handleStreamBWEvent_body"
          /\ loopPc' # loopPc
          /\ Len(Fields(line)) >= 5
          /\ Fields(line)[3] \in DOMAIN streams )
        => LET id == Fields(line)[3]
               ds == Contribution(Fields(line)[4])
               dr == Contribution(Fields(line)[5])
           IN  /\ id \in DOMAIN streams'
               /\ streams'[id].BytesSent = streams[id].BytesSent + ds
               /\ streams'[id].BytesReceived = streams[id].BytesReceived + dr
               /\ stats'["total_sent"] = stats["total_sent"] + ds
               /\ stats'["total_received"] = stats["total_received"] + dr
               /\ report'["total_sent"] = report["total_sent"] + ds
               /\ report'["total_received"] = report["total_received"] + dr ]_vars

\* "abc 250" has been applied to stream 9: nothing sent, 250 received, in
\* the record, the lifetime totals and the window.
C6_Witness ==
    /\ mu = "free"
    /\ "9" \in DOMAIN streams
    /\ streams["9"].BytesSent = 0
    /\ streams["9"].BytesReceived = 250
    /\ stats["total_sent"] = 0
    /\ stats["total_received"] = 250
    /\ report["total_received"] = 250

\* A reply that was read and holds "250 OK".
GoodReply(r) ==
    /\ ~r.err
    /\ \E i \in 1..(Len(r.s) - 5) : SubSeq(r.s, i, i + 5) = "250 OK"

\* C7: Start gets as far as starting the two tasks only if the reply to
\* AUTHENTICATE and the reply to SETEVENTS were both read and both hold
\* "250 OK".
C7_SetupFailStop ==
    startPc \in {"go_eventLoop", "go_periodicStats"} =>
        /\ GoodReply(authResp)
        /\ GoodReply(setResp)

\* C8: the reporter's critical section changes neither the registry, nor
\* the lifetime totals, nor totalStreams, nor activeStreams, and it ends
\* with the three windowed counters at zero.
C8_TickResetsWindowOnly ==
    [][ ( /\ repPc \in {"report", "reset"}
          /\ repPc' # repPc )
        => ( /\ UNCHANGED << streams, stats, activeStreams, totalStreams >>
             /\ repPc = "reset" =>
                    \A k \in {"total_sent", "total_received", "streams_total"} :
                        report'[k] = 0 ) ]_vars

\* A tick has just reported a window with traffic and an opening, and has
\* zeroed the window; the lifetime values and the open stream are still there.
C8_Witness ==
    /\ repPc = "wait"
    /\ log # <<>>
    /\ Last(log).kind = "report"
    /\ Last(log).received > 0
    /\ Last(log).streams > 0
    /\ report = ZeroCounters
    /\ stats["total_received"] > 0
    /\ stats["streams_total"] > 0
    /\ activeStreams > 0

\* The sum of field f over the report lines among the first n log lines.
RECURSIVE Reported(_, _)
Reported(f, n) ==
    IF n = 0 THEN 0
    ELSE Reported(f, n - 1)
            + (IF log[n].kind = "report" THEN log[n][f] ELSE 0)

\* C9: outside the reporter's critical section, what the reports written so
\* far show plus what the window holds is the lifetime value, for the bytes
\* sent, the bytes received and the streams opened: every sample and every
\* opening is in exactly one window.
C9_WindowsPartitionLifetime ==
    repPc # "reset" =>
        /\ Reported("sent", Len(log)) + report["total_sent"]
              = stats["total_sent"]
        /\ Reported("received", Len(log)) + report["total_received"]
              = stats["total_received"]
        /\ Reported("streams", Len(log)) + report["streams_total"]
              = stats["streams_total"]

\* A report has been written, and traffic and an opening have been counted
\* before it and after it.
C9_Witness ==
    /\ repPc = "wait"
    /\ Reported("received", Len(log)) > 0
    /\ Reported("streams", Len(log)) > 0
    /\ report["total_received"] > 0

\* The number of maximal runs of non-space characters of s.
TokenCount(s) ==
    Cardinality({ i \in 1..Len(s) :
                    /\ SubSeq(s, i, i) \notin {" ", "\t", "\n", "\r"}
                    /\ (i = 1 \/ SubSeq(s, i - 1, i - 1) \in {" ", "\t", "\n", "\r"}) })

\* C10: a status line with fewer than 4 tokens and a bandwidth line with
\* fewer than 5 tokens change nothing and write nothing; the lock is
\* released and the loop reads the next line.
C10_ShortLineDropped ==
    [][ ( /\ loopPc' # loopPc
          /\ \/ loopPc = "handleStreamEvent_body" /\ TokenCount(line) < 4
             \/ loopPc = "handleStreamBWEvent_body" /\ TokenCount(line) < 5 )
        => ( /\ UNCHANGED << counters, log >>
             /\ loopPc' = "read"
             /\ mu' = "free" ) ]_vars

\* The handler holds the lock on the four-token bandwidth line for stream 7,
\* which is in the registry.
C10_Witness ==
    /\ loopPc = "handleStreamBWEvent_body"
    /\ mu = "eventLoop"
    /\ TokenCount(line) = 4
    /\ "7" \in DOMAIN streams

\* C11: once the event loop has returned on a read error it stays returned
\* and does not hold the lock, and from then on no step changes the
\* registry, a record's counters, the lifetime counters, totalStreams or
\* activeStreams; what earlier lines did stays, and the reporter can go on.
C11_LoopFailStop ==
    [][ loopPc = "returned"
        => ( /\ loopPc' = "returned"
             /\ mu # "eventLoop"
             /\ UNCHANGED << streams, stats, activeStreams, totalStreams >> ) ]_vars

\* The loop has returned after a stream was opened and traffic counted, and
\* the reporter is inside its critical section.
C11_Witness ==
    /\ loopPc = "returned"
    /\ activeStreams > 0
    /\ stats["total_received"] > 0
    /\ repPc = "report"
    /\ mu = "periodicStats"

\* Log q extends log by exactly the n lines whose kinds are given.
Appends(q, kinds) ==
    /\ Len(q) = Len(log) + Len(kinds)
    /\ SubSeq(q, 1, Len(log)) = log
    /\ \A j \in 1..Len(kinds) : q[Len(log) + j].kind = kinds[j]

\* In log q every finalization summary directly follows the status line of
\* its terminal event and is directly followed by its totals line; a
\* terminal status line at the end of q is allowed only while its handler,
\* at position pc, is about to finalize.
Grouped(q, pc) ==
    \A i \in 1..Len(q) :
        /\ q[i].kind = "summary" =>
              /\ i > 1 /\ i < Len(q)
              /\ q[i - 1].kind = "status"
              /\ q[i - 1].id = q[i].id
              /\ q[i - 1].status \in {"CLOSED", "FAILED"}
              /\ q[i + 1].kind = "totals"
        /\ q[i].kind = "totals" => (i > 1 /\ q[i - 1].kind = "summary")
        /\ (q[i].kind = "status" /\ q[i].status \in {"CLOSED", "FAILED"}) =>
              IF i < Len(q) THEN q[i + 1].kind = "summary"
              ELSE pc = "handleStreamEvent_finalize"

\* C12: a handled status event writes exactly one line, a finalization
\* exactly two more (summary, then totals), a tick exactly one, and no
\* other step, a bandwidth event included, writes any; in the log the
\* three lines of a terminal event are adjacent, never split by a report.
C12_LogLinesPerEvent ==
    [][ /\ IF /\ loopPc = "handleStreamEvent_body"
              /\ loopPc' # loopPc
              /\ TokenCount(line) >= 4
           THEN Appends(log', << "status" >>)
           ELSE IF loopPc = "handleStreamEvent_finalize" /\ loopPc' # loopPc
           THEN Appends(log', << "summary", "totals" >>)
           ELSE IF repPc = "report" /\ repPc' # repPc
           THEN Appends(log', << "report" >>)
           ELSE log' = log
        /\ Grouped(log', loopPc') ]_vars

\* A tick wanted the lock while a terminal event was being handled, and its
\* report came out after the event's three lines.
C12_Witness ==
    /\ Len(log) >= 4
    /\ log[Len(log)].kind = "report"
    /\ log[Len(log) - 1].kind = "totals"
    /\ log[Len(log) - 2].kind = "summary"
    /\ log[Len(log) - 3].kind = "status"
    /\ stats["total_received"] > 0

\* Positions of the event loop and of the reporter between Lock and Unlock.
LoopCritical ==
    { "handleStreamEvent_body", "handleStreamEvent_finalize",
      "handleStreamEvent_delete", "handleStreamBWEvent_body" }

ReporterCritical == { "report", "reset" }

\* C13: the two handlers and the reporter body run only while holding the
\* one mutex, so their critical sections never overlap, and the registry,
\* the counters and the log change only in a step of the lock holder.
C13_CriticalSectionsExclusive ==
    [][ /\ loopPc' \in LoopCritical => mu' = "eventLoop"
        /\ repPc' \in ReporterCritical => mu' = "periodicStats"
        /\ ~ (loopPc' \in LoopCritical /\ repPc' \in ReporterCritical)
        /\ (counters' # counters \/ log' # log) =>
              \/ mu = "eventLoop" /\ loopPc \in LoopCritical /\ repPc' = repPc
              \/ mu = "periodicStats" /\ repPc \in ReporterCritical
                                      /\ loopPc' = loopPc ]_vars

\* The reporter has a tick and waits for the mutex while the event loop is
\* in the middle of a finalization.
C13_Witness ==
    /\ repPc = "lock"
    /\ loopPc = "handleStreamEvent_finalize"
    /\ mu = "eventLoop"

\* C14: the summary written on a terminal transition carries, for the id
\* of the event, the sums of the sent and received values of the bandwidth
\* events applied to the record since it was created; the totals line
\* carries the lifetime byte totals, the lifetime stream count and the
\* active count after the decrement for this stream.
C14_FinalizationReportsSums ==
    [][ (loopPc = "handleStreamEvent_finalize" /\ loopPc' # loopPc) =>
          LET id      == Last(log).id
              summary == log'[Len(log) + 1]
              totals  == log'[Len(log) + 2]
          IN  /\ Len(log') = Len(log) + 2
              /\ summary.kind = "summary"
              /\ summary.id = id
              /\ summary.S = bwSum[id].sent
              /\ summary.R = bwSum[id].rcvd
              /\ totals.kind = "totals"
              /\ totals.S = stats'["total_sent"]
              /\ totals.R = stats'["total_received"]
              /\ totals.all = totalStreams'
              /\ totals.active = activeStreams - 1
              /\ totals.active = activeStreams' ]_vars

\* Stream 7 was opened, carried 100 bytes out and 250 in, and was closed:
\* the summary says S:100 R:250 (END) and the active count is back at 0.
C14_Witness ==
    /\ Len(log) >= 3
    /\ log[Len(log) - 1].kind = "summary"
    /\ log[Len(log) - 1].id = "7"
    /\ log[Len(log) - 1].S = 100
    /\ log[Len(log) - 1].R = 250
    /\ log[Len(log) - 1].reason = "END"
    /\ log[Len(log)].kind = "totals"
    /\ log[Len(log)].active = 0
    /\ log[Len(log)].all = 1

\* The step of handleStreamEvent that applies a status line of at least
\* four tokens, up to its status line in the log.
StatusApplied ==
    /\ loopPc = "handleStreamEvent_body"
    /\ loopPc' # loopPc
    /\ TokenCount(line) >= 4

C16_DispatchByWireForm ==
    [][ (loopPc = "dispatch" /\ loopPc' # loopPc) =>
          LET l == TrimSpace(line) IN
          /\ (HasPrefix(l, "650 STREAM ") /\ TokenCount(l) >= 4)
                => loopPc' = "handleStreamEvent"
          /\ HasPrefix(l, "650 STREAM_BW")
                => loopPc' = "handleStreamBWEvent"
          /\ (~ HasPrefix(l, "650 STREAM ") /\ ~ HasPrefix(l, "650 STREAM_BW"))
                => (loopPc' = "read" /\ UNCHANGED data) ]_vars

\* Positions 5 and later of parts holding a token with no "=" that is not "-".
TargetCandidates(parts) ==
    { i \in 5..Len(parts) : ~Contains(parts[i], "=") /\ parts[i] # "-" }

\* The candidate at the highest position, or old when there is none.
LastCandidate(parts, old) ==
    LET c == TargetCandidates(parts) IN
    IF c = {} THEN old
    ELSE parts[CHOOSE i \in c : \A j \in c : j <= i]

\* C17: after a status event the record's target is the last token at
\* position 5 or later with no "=" that is not "-", or, when the line has
\* none, the target from before the event (empty for a new record); the
\* event's status line and a finalization summary show that value.
C17_TargetLastWins ==
    [][ /\ StatusApplied =>
             LET parts    == Fields(line)
                 id       == parts[3]
                 old      == IF id \in DOMAIN streams
                             THEN streams[id].Target ELSE ""
                 expected == LastCandidate(parts, old)
             IN  /\ streams'[id].Target = expected
                 /\ Last(log').target = expected
        /\ (loopPc = "handleStreamEvent_finalize" /\ loopPc' # loopPc) =>
             /\ log'[Len(log) + 1].target = streams[Last(log).id].Target
             /\ log'[Len(log) + 1].target = Last(log).target ]_vars

\* Stream 7 got its target from a line with two candidates ("0" and
\* "a.com:443"), kept it through "CLOSED REASON=DONE", which has none, and
\* the summary shows it.
C17_Witness ==
    /\ Len(log) >= 4
    /\ log[Len(log) - 1].kind = "summary"
    /\ log[Len(log) - 1].id = "7"
    /\ log[Len(log) - 1].target = "a.com:443"
    /\ log[Len(log) - 2].status = "CLOSED"
    /\ log[Len(log) - 3].kind = "status"
    /\ log[Len(log) - 3].status = "NEW"
    /\ log[Len(log) - 3].target = "a.com:443"

\* The sum of BytesSent (sent = TRUE) or BytesReceived over the records
\* with ids in ids.
RECURSIVE SumRegistry(_, _)
SumRegistry(ids, sent) ==
    IF ids = {} THEN 0
    ELSE LET k == CHOOSE k \in ids : TRUE IN
         (IF sent THEN streams[k].BytesSent ELSE streams[k].BytesReceived)
         + SumRegistry(ids \ {k}, sent)

\* The sum of S (sent = TRUE) or R over the summaries among the first n
\* lines of the log.
RECURSIVE SumSummaries(_, _)
SumSummaries(n, sent) ==
    IF n = 0 THEN 0
    ELSE (IF log[n].kind = "summary"
          THEN (IF sent THEN log[n].S ELSE log[n].R)
          ELSE 0)
         + SumSummaries(n - 1, sent)

\* C18: whenever nobody holds the mutex, lifetime total_sent is the sum of
\* BytesSent over the registry plus the sum of S over all summaries
\* written so far, and the same for total_received: every counted byte
\* belongs to exactly one stream.
C18_ByteConservation ==
    mu = "free" =>
        /\ stats["total_sent"] =
              SumRegistry(DOMAIN streams, TRUE) + SumSummaries(Len(log), TRUE)
        /\ stats["total_received"] =
              SumRegistry(DOMAIN streams, FALSE) + SumSummaries(Len(log), FALSE)

\* Stream 7 has been finalized with 100 bytes out and 250 in and is gone
\* from the registry; the lifetime totals are exactly those of its summary.
C18_Witness ==
    /\ mu = "free"
    /\ streams = EmptyMap
    /\ stats["total_sent"] = 100
    /\ stats["total_received"] = 250
    /\ SumSummaries(Len(log), TRUE) = 100

\* The number of finalizations: the summaries among the lines of the log.
Finalizations == Cardinality({ i \in 1..Len(log) : log[i].kind = "summary" })

\* C19: whenever nobody holds the mutex, totalStreams equals the lifetime
\* counter stats["streams_total"], and both equal activeStreams plus the
\* number of finalizations so far; the windowed opened count never
\* exceeds the lifetime opened count.
C19_StreamCountConservation ==
    /\ mu = "free" =>
          /\ totalStreams = stats["streams_total"]
          /\ totalStreams = activeStreams + Finalizations
    /\ report["streams_total"] <= stats["streams_total"]

\* Two streams were opened in all, one of them has been finalized and one
\* is active, and a tick between them left the window short of the
\* lifetime count.
C19_Witness ==
    /\ mu = "free"
    /\ totalStreams = 2
    /\ activeStreams = 1
    /\ Finalizations = 1
    /\ report["streams_total"] < stats["streams_total"]

============================================================================
